---- MODULE Spec2Model ----
(***************************************************************************)
(* A model of tpot/operator_utils.py: the reference resolver               *)
(* (source_decode), the parameter type synthesizer (ARGTypeClassFactory),  *)
(* the operator descriptor builder (TPOTOperatorClassFactory) and the      *)
(* export renderer (the export classmethod it closes over a descriptor).   *)
(*                                                                         *)
(* Python strings are sequences of one-character strings, so that          *)
(* str.split, str.join, str.startswith, slicing and str.format are         *)
(* computed and not assumed.                                               *)
(***************************************************************************)
EXTENDS Integers, Sequences, FiniteSets, TLC

VARIABLES
    nbuilds,   \* number of TPOTOperatorClassFactory calls made in this pass
    call,      \* the arguments of the last TPOTOperatorClassFactory call
    ret,       \* what that call produced: a descriptor, (None, None), or an exception
    tags,      \* names of the classes ARGTypeClassFactory created in this pass, in order
    done,      \* the references (keys of the configuration) those calls were given
    stdout,    \* references printed as "Operator ... is not available"
    out,       \* arguments and outcome of the last completed sequential export call
    th         \* per thread: the frame of its export call in progress

vars == <<nbuilds, call, ret, tags, done, stdout, out, th>>

----------------------------------------------------------------------------
(* Bounds of the model *)

\* entries built in one catalog pass
MaxBuilds == 2
\* nested-operator references declared by one parameter-spec
MaxRefs == 2
\* threads calling export on one descriptor
MaxThreads == 2

----------------------------------------------------------------------------
(* Python strings *)

\* The characters used, in ascending code point order; only the relative
\* order matters (it decides sorted()).
Alphabet ==
    << " ", "\"", "(", ")", ",", ".", "0", "1", "2", "3", "4", "5", "6", "7",
       "8", "9", "=", "B", "C", "G", "Q", "R", "S", "T", "U", "Z", "_",
       "a", "b", "c", "d", "e", "f", "g", "i", "k", "l", "m", "n", "o", "p",
       "s", "t", "x" >>

Ord(c) == CHOOSE i \in 1..Len(Alphabet) : Alphabet[i] = c

Drop(s, n) == IF n >= Len(s) THEN <<>> ELSE SubSeq(s, n + 1, Len(s))

StartsWith(s, p) == Len(p) <= Len(s) /\ SubSeq(s, 1, Len(p)) = p

\* str < str : lexicographic by code point, a proper prefix first
RECURSIVE StrLess(_, _)
StrLess(a, b) ==
    IF b = <<>> THEN FALSE
    ELSE IF a = <<>> THEN TRUE
    ELSE IF Head(a) = Head(b) THEN StrLess(Tail(a), Tail(b))
    ELSE Ord(Head(a)) < Ord(Head(b))

\* sorted(keys) for a set of distinct strings
RECURSIVE Sorted(_)
Sorted(S) ==
    IF S = {} THEN <<>>
    ELSE LET lo == CHOOSE x \in S : \A y \in S \ {x} : StrLess(x, y)
         IN  <<lo>> \o Sorted(S \ {lo})

\* s.split(sep) for a non-empty sep: left to right, non-overlapping
RECURSIVE SplitAcc(_, _, _, _)
SplitAcc(s, sep, cur, acc) ==
    IF s = <<>> THEN Append(acc, cur)
    ELSE IF StartsWith(s, sep)
         THEN SplitAcc(Drop(s, Len(sep)), sep, <<>>, Append(acc, cur))
         ELSE SplitAcc(Tail(s), sep, Append(cur, Head(s)), acc)

Split(s, sep) == SplitAcc(s, sep, <<>>, <<>>)

\* sep.join(parts)
RECURSIVE Join(_, _)
Join(parts, sep) ==
    IF parts = <<>> THEN <<>>
    ELSE IF Len(parts) = 1 THEN parts[1]
    ELSE parts[1] \o sep \o Join(Tail(parts), sep)

Dot == <<".">>
DUnder == <<"_", "_">>
CommaSp == <<",", " ">>

\* str(n) for n >= 0
RECURSIVE IntStr(_)
IntStr(n) ==
    IF n < 10 THEN <<Alphabet[Ord("0") + n]>>
    ELSE IntStr(n \div 10) \o <<Alphabet[Ord("0") + (n % 10)]>>

----------------------------------------------------------------------------
(* Python values passed to export: a str or an int *)

StrVal(s) == [t |-> "str", s |-> s, n |-> 0]
IntVal(n) == [t |-> "int", s |-> <<>>, n |-> n]

\* '{}'.format(v)
Format(v) == IF v.t = "str" THEN v.s ELSE IntStr(v.n)

----------------------------------------------------------------------------
(* The host environment: the modules that can be imported and the objects   *)
(* they hold.  sklearn-like modules m and n, and the package's own module   *)
(* tpot.b.                                                                  *)

Str_tpot == <<"t", "p", "o", "t">>
Str_f_classif == <<"f", "_", "c", "l", "a", "s", "s", "i", "f">>

\* An object a name can be bound to: a class with its mixin bases, or a function
Class(name, bases) == [name |-> name, isclass |-> TRUE, bases |-> bases, none |-> FALSE]
Function(name) == [name |-> name, isclass |-> FALSE, bases |-> {}, none |-> FALSE]
NoneObj == [name |-> <<>>, isclass |-> FALSE, bases |-> {}, none |-> TRUE]

Registry ==
    { [module |-> <<"m">>, symbol |-> <<"R">>, obj |-> Class(<<"R">>, {})],
      [module |-> <<"n">>, symbol |-> <<"R">>, obj |-> Class(<<"R">>, {})],
      [module |-> <<"m">>, symbol |-> <<"C">>, obj |-> Class(<<"C">>, {"ClassifierMixin"})],
      [module |-> <<"m">>, symbol |-> <<"G">>, obj |-> Class(<<"G">>, {"RegressorMixin"})],
      [module |-> <<"n">>, symbol |-> <<"S">>, obj |-> Class(<<"S">>, {"ClassifierMixin"})],
      [module |-> <<"n">>, symbol |-> <<"T">>, obj |-> Class(<<"T">>, {"RegressorMixin"})],
      [module |-> <<"n">>, symbol |-> Str_f_classif, obj |-> Function(Str_f_classif)],
      [module |-> Str_tpot \o <<".", "b">>, symbol |-> <<"U">>, obj |-> Class(<<"U">>, {})] }

\* The dots a relative module path starts with
RECURSIVE LeadingDots(_)
LeadingDots(mod) ==
    IF mod # <<>> /\ Head(mod) = "." THEN 1 + LeadingDots(Tail(mod)) ELSE 0

\* Whether "from <mod> import <name>" is a statement at all: dots and then a
\* path of non-empty names (one of the two may be missing), and a non-empty name.
ImportStmtParses(mod, name) ==
    /\ name # <<>>
    /\ mod # <<>>
    /\ LET rest == Drop(mod, LeadingDots(mod))
           segs == Split(rest, Dot)
       IN  rest = <<>> \/ \A i \in 1..Len(segs) : segs[i] # <<>>

\* The module "from <mod> import" names when executed in a module of package tpot
AbsoluteModule(mod) ==
    LET rest == Drop(mod, LeadingDots(mod))
    IN  IF LeadingDots(mod) = 0 THEN mod
        ELSE IF rest = <<>> THEN Str_tpot
        ELSE Str_tpot \o Dot \o rest

Importable(mod, name) ==
    /\ LeadingDots(mod) <= 1
    /\ \E r \in Registry : r.module = AbsoluteModule(mod) /\ r.symbol = name

Imported(mod, name) ==
    (CHOOSE r \in Registry : r.module = AbsoluteModule(mod) /\ r.symbol = name).obj

----------------------------------------------------------------------------
(* source_decode *)

\* The outcome of source_decode: the returned triple, the exception that left
\* it ("" when it returned), and what it printed.  exec binds the imported
\* name in the frame's locals, where eval(op_str) then finds it (CPython 2.7
\* to 3.12); a statement that does not parse is a SyntaxError, which the
\* except ImportError clause lets through.
source_decode(sourcecode) ==
    LET tmp_path   == Split(sourcecode, Dot)
        op_str     == tmp_path[Len(tmp_path)]
        import_str == Join(SubSeq(tmp_path, 1, Len(tmp_path) - 1), Dot)
        mod        == IF StartsWith(sourcecode, Str_tpot \o Dot)
                      THEN Drop(import_str, 4)
                      ELSE import_str
    IN  IF ~ImportStmtParses(mod, op_str)
        THEN [exc |-> "SyntaxError", import_str |-> import_str, op_str |-> op_str,
              op_obj |-> NoneObj, printed |-> <<>>]
        ELSE IF Importable(mod, op_str)
        THEN [exc |-> "", import_str |-> import_str, op_str |-> op_str,
              op_obj |-> Imported(mod, op_str), printed |-> <<>>]
        ELSE \* except ImportError
             [exc |-> "", import_str |-> import_str, op_str |-> op_str,
              op_obj |-> NoneObj, printed |-> <<sourcecode>>]

----------------------------------------------------------------------------
(* ARGTypeClassFactory *)

\* type(classname, (ARGType,), {'values': prange}); key is not part of the
\* class: it records which declaration of the parameter-spec the class was
\* made for (outer parameter, nested symbol, sub-parameter).
ARGTypeClassFactory(classname, prange, key) ==
    [name |-> classname, values |-> prange, key |-> key]

----------------------------------------------------------------------------
(* Parameter-specs (opdict) *)

\* A value range; its content is never read by this module.
Range == <<1, 2>>

\* opdict[pname] when it is not a dict
Plain == [isdict |-> FALSE, values |-> Range, items |-> <<>>]
\* opdict[pname] when it is a dict: its items in iteration order
Nested(items) == [isdict |-> TRUE, values |-> <<>>, items |-> items]
\* one item of such a dict: the nested reference and None or its sub-parameters
Item(dkey, dval) == [key |-> dkey, val |-> dval]
NoneVal == [isnone |-> TRUE, params |-> {}]
SubParams(names) == [isnone |-> FALSE, params |-> names]

\* bool(dval)
Truthy(dval) == ~dval.isnone /\ dval.params # {}

----------------------------------------------------------------------------
(* Python dicts that are iterated: (key, value) pairs in insertion order *)

DictHas(d, k) == \E i \in 1..Len(d) : d[i].k = k
DictGet(d, k) == d[CHOOSE i \in 1..Len(d) : d[i].k = k].v
\* d[k] = v
DictSet(d, k, v) ==
    IF DictHas(d, k)
    THEN [i \in 1..Len(d) |-> IF d[i].k = k THEN [k |-> k, v |-> v] ELSE d[i]]
    ELSE Append(d, [k |-> k, v |-> v])
\* list(d.values())
DictValues(d) == [i \in 1..Len(d) |-> d[i].v]

----------------------------------------------------------------------------
(* TPOTOperatorClassFactory *)

Str_CR == "Classifier or Regressor"
Str_PS == "Preprocessor or Selector"

\* OpProfile looking for ClassifierMixin alone
OpProfileClassifierOnly(op_obj) ==
    IF "ClassifierMixin" \in op_obj.bases
    THEN [root |-> TRUE, type |-> Str_CR]
    ELSE [root |-> FALSE, type |-> Str_PS]

\* class_profile['root'] and what op_type returns; root is inherited from
\* Operator (False) when the profile does not set it
OpProfile(op_obj) ==
    IF "ClassifierMixin" \in op_obj.bases \/ "RegressorMixin" \in op_obj.bases
    THEN [root |-> TRUE, type |-> Str_CR]
    ELSE [root |-> FALSE, type |-> Str_PS]

\* '{}__{}'.format(op_str, pname)
SimpleClassName(op_str, pname) == op_str \o DUnder \o pname
\* '{}__{}__{}'.format(op_str, dep_op_str, dpname)
NestedClassName(op_str, dep_op_str, dpname) ==
    op_str \o DUnder \o dep_op_str \o DUnder \o dpname

\* for dpname in sorted(dval.keys()): arg_types.append(...)
RECURSIVE SubParamLoop(_, _, _, _, _)
SubParamLoop(dpnames, op_str, pname, dep_op_str, arg_types) ==
    IF dpnames = <<>> THEN arg_types
    ELSE SubParamLoop(Tail(dpnames), op_str, pname, dep_op_str,
            Append(arg_types,
                   ARGTypeClassFactory(NestedClassName(op_str, dep_op_str, Head(dpnames)),
                                       Range, <<pname, dep_op_str, Head(dpnames)>>)))

\* import_hash after one nested reference was decoded
ImportHashMerge(import_hash, import_str, dep_import_str, dep_op_str) ==
    IF dep_import_str \in DOMAIN import_hash
    THEN [import_hash EXCEPT ![import_str] = Append(@, dep_op_str)]
    ELSE import_hash @@ (dep_import_str :> <<dep_op_str>>)

\* for dkey, dval in prange.items(): ...   st is the builder's locals; the loop
\* ends at the first exception
RECURSIVE ItemLoop(_, _, _, _, _)
ItemLoop(items, pname, import_str, op_str, st) ==
    IF items = <<>> \/ st.exc # "" THEN st
    ELSE LET dkey == Head(items).key
             dval == Head(items).val
             sd   == source_decode(dkey)
         IN  IF sd.exc # "" THEN [st EXCEPT !.exc = sd.exc]
             ELSE ItemLoop(Tail(items), pname, import_str, op_str,
                    [exc         |-> "",
                     printed     |-> st.printed \o sd.printed,
                     import_hash |-> ImportHashMerge(st.import_hash, import_str,
                                                     sd.import_str, sd.op_str),
                     dep_op_list |-> DictSet(st.dep_op_list, pname, sd.op_str),
                     arg_types   |-> IF Truthy(dval)
                                     THEN SubParamLoop(Sorted(dval.params), op_str, pname,
                                                       sd.op_str, st.arg_types)
                                     ELSE st.arg_types])

\* for pname in sorted(opdict.keys()): ...
RECURSIVE ParamLoop(_, _, _, _, _)
ParamLoop(pnames, opdict, import_str, op_str, st) ==
    IF pnames = <<>> \/ st.exc # "" THEN st
    ELSE LET pname  == Head(pnames)
             prange == opdict[pname]
         IN  ParamLoop(Tail(pnames), opdict, import_str, op_str,
                IF ~prange.isdict
                THEN [st EXCEPT !.arg_types =
                        Append(@, ARGTypeClassFactory(SimpleClassName(op_str, pname),
                                                      prange.values, <<pname>>))]
                ELSE ItemLoop(prange.items, pname, import_str, op_str, st))

NoDesc ==
    [name |-> <<>>, root |-> FALSE, type |-> "", sklearn_class |-> NoneObj,
     arg_types |-> <<>>, import_hash |-> <<>>, dep_op_list |-> <<>>]

ClassNames(arg_types) == [i \in 1..Len(arg_types) |-> arg_types[i].name]

\* The outcome of one call: kind "desc" (op_class, arg_types), "skip"
\* (None, None) or "raise" (exc propagated); created are the names of the
\* parameter classes the call created, printed what it wrote to stdout.
TPOTOperatorClassFactory(opsourse, opdict) ==
    LET sd == source_decode(opsourse)
    IN  IF sd.exc # ""
        THEN [kind |-> "raise", exc |-> sd.exc, desc |-> NoDesc,
              created |-> <<>>, printed |-> sd.printed]
        ELSE IF sd.op_obj.none
        THEN [kind |-> "skip", exc |-> "", desc |-> NoDesc,
              created |-> <<>>, printed |-> sd.printed]
        ELSE IF ~sd.op_obj.isclass
        THEN \* issubclass() arg 1 must be a class
             [kind |-> "raise", exc |-> "TypeError", desc |-> NoDesc,
              created |-> <<>>, printed |-> sd.printed]
        ELSE
        LET st == ParamLoop(Sorted(DOMAIN opdict), opdict, sd.import_str, sd.op_str,
                            [exc |-> "", printed |-> sd.printed,
                             import_hash |-> (sd.import_str :> <<sd.op_str>>),
                             dep_op_list |-> <<>>, arg_types |-> <<>>])
        IN  IF st.exc # ""
            THEN [kind |-> "raise", exc |-> st.exc, desc |-> NoDesc,
                  created |-> ClassNames(st.arg_types), printed |-> st.printed]
            ELSE [kind |-> "desc", exc |-> "",
                  desc |-> [name          |-> sd.op_str,
                            root          |-> OpProfile(sd.op_obj).root,
                            type          |-> OpProfile(sd.op_obj).type,
                            sklearn_class |-> sd.op_obj,
                            arg_types     |-> st.arg_types,
                            import_hash   |-> st.import_hash,
                            dep_op_list   |-> st.dep_op_list],
                  created |-> ClassNames(st.arg_types), printed |-> st.printed]

----------------------------------------------------------------------------
(* export: the classmethod closed over arg_types, dep_op_list and op_obj *)

Min(a, b) == IF a < b THEN a ELSE b

IdleFrame ==
    [pc |-> "idle", args |-> <<>>, i |-> 0, op_arguments |-> <<>>,
     dep_op_arguments |-> <<>>, exc |-> "", text |-> <<>>]

\* The locals of a call that has just begun: op_arguments = [] and
\* dep_op_arguments = {} (bound only when dep_op_list is not empty, and only
\* read after a value of dep_op_list was found, so never read unbound)
ExportEnter(args) ==
    [pc |-> "loop", args |-> args, i |-> 1, op_arguments |-> <<>>,
     dep_op_arguments |-> <<>>, exc |-> "", text |-> <<>>]

\* arg_value after: if isinstance(arg_value, str): arg_value = '"{}"'.format(arg_value)
\* as the text that '{}'.format(arg_value) then gives
ArgText(v) == IF v.t = "str" THEN <<"\"">> \o Format(v) \o <<"\"">> ELSE Format(v)

\* "{}={}".format(name, text)
KeyEqualsValue(name, text) == name \o <<"=">> \o text

\* list(dep_op_list.values()).count(x)
CountValues(dep_op_list, x) ==
    Cardinality({i \in 1..Len(dep_op_list) : DictValues(dep_op_list)[i] = x})

\* ExportIter taking each parameter class off the closed-over list
\* (arg_types.pop(0)) in place of reading it through zip
ExportIterConsuming(fr, d) ==
    LET aname_split == Split(Head(d.arg_types).name, DUnder)
        last        == aname_split[Len(aname_split)]
        text        == ArgText(fr.args[fr.i])
        nested      == aname_split[2]
    IN  [closure |-> [d EXCEPT !.arg_types = Tail(@)],
         frame |->
            IF Len(aname_split) = 2
            THEN [fr EXCEPT !.i = @ + 1,
                            !.op_arguments = Append(@, KeyEqualsValue(last, text))]
            ELSE IF CountValues(d.dep_op_list, nested) = 0
            THEN [fr EXCEPT !.pc = "raised", !.exc = "NameError"]
            ELSE [fr EXCEPT !.i = @ + 1,
                            !.dep_op_arguments =
                                DictSet(@, nested,
                                    Append(IF DictHas(@, nested) THEN DictGet(@, nested)
                                           ELSE <<>>,
                                           KeyEqualsValue(last, text)))]]

\* One iteration of: for arg_class, arg_value in zip(arg_types, args).
\* Gives the frame after it and the closure cells after it (the iteration
\* assigns to none of them).
ExportIter(fr, d) ==
    LET aname_split == Split(d.arg_types[fr.i].name, DUnder)
        last        == aname_split[Len(aname_split)]
        text        == ArgText(fr.args[fr.i])
        nested      == aname_split[2]
    IN  [closure |-> d,
         frame |->
            IF Len(aname_split) = 2
            THEN [fr EXCEPT !.i = @ + 1,
                            !.op_arguments = Append(@, KeyEqualsValue(last, text))]
            ELSE IF CountValues(d.dep_op_list, nested) = 0
            THEN \* the raise statement names self, which is bound nowhere
                 [fr EXCEPT !.pc = "raised", !.exc = "NameError"]
            ELSE [fr EXCEPT !.i = @ + 1,
                            !.dep_op_arguments =
                                DictSet(@, nested,
                                    Append(IF DictHas(@, nested) THEN DictGet(@, nested)
                                           ELSE <<>>,
                                           KeyEqualsValue(last, text)))]]

\* for dep_op_pname, dep_op_str in dep_op_list.items(): tmp_op_args.append(...)
\* up to the first dep_op_str with no entry in dep_op_arguments
RECURSIVE DepArgs(_, _)
DepArgs(dep_op_list, dep_op_arguments) ==
    IF dep_op_list = <<>> THEN [exc |-> "", tmp_op_args |-> <<>>]
    ELSE LET dep_op_pname == Head(dep_op_list).k
             dep_op_str   == Head(dep_op_list).v
             rest         == DepArgs(Tail(dep_op_list), dep_op_arguments)
         IN  IF dep_op_str # Str_f_classif /\ ~DictHas(dep_op_arguments, dep_op_str)
             THEN [exc |-> "KeyError", tmp_op_args |-> <<>>]
             ELSE IF rest.exc # "" THEN rest
             ELSE [exc |-> "",
                   tmp_op_args |->
                      <<KeyEqualsValue(dep_op_pname,
                           IF dep_op_str = Str_f_classif THEN dep_op_str
                           ELSE dep_op_str \o <<"(">>
                                \o Join(DictGet(dep_op_arguments, dep_op_str), CommaSp)
                                \o <<")">>)>>
                      \o rest.tmp_op_args]

\* The statements after the zip loop, to the return
ExportFinish(fr, d) ==
    LET deps == DepArgs(d.dep_op_list, fr.dep_op_arguments)
    IN  [closure |-> d,
         frame |->
            IF deps.exc # ""
            THEN [fr EXCEPT !.pc = "raised", !.exc = deps.exc]
            ELSE [fr EXCEPT !.pc = "returned",
                            !.text = d.sklearn_class.name \o <<"(">>
                                     \o Join(deps.tmp_op_args \o fr.op_arguments, CommaSp)
                                     \o <<")">>]]

\* The next statement of a call in progress
ExportStep(fr, d) ==
    IF fr.i <= Min(Len(d.arg_types), Len(fr.args))
    THEN ExportIter(fr, d)
    ELSE ExportFinish(fr, d)

RECURSIVE ExportRun(_, _)
ExportRun(fr, d) ==
    IF fr.pc # "loop" THEN [frame |-> fr, closure |-> d]
    ELSE LET r == ExportStep(fr, d) IN ExportRun(r.frame, r.closure)

\* One whole call op_class.export(*args), run alone
export(d, args) == ExportRun(ExportEnter(args), d)

----------------------------------------------------------------------------
(* Inputs *)

Ref(module, symbol) == module \o Dot \o symbol

\* Top-level references: selectors R in two modules, a classifier, a
\* regressor, the package's own U, a missing module, a missing symbol, a
\* reference with no dot, the internal prefix and a symbol, and a function.
TopRefs ==
    { Ref(<<"m">>, <<"R">>), Ref(<<"n">>, <<"R">>), Ref(<<"m">>, <<"C">>),
      Ref(<<"m">>, <<"G">>), Ref(Str_tpot \o <<".", "b">>, <<"U">>),
      Ref(<<"x">>, <<"Z">>), Ref(<<"m">>, <<"Z">>), <<"Z">>,
      Ref(Str_tpot, <<"B">>), Ref(<<"n">>, Str_f_classif) }

\* Nested-operator references: two classes of module n, the scoring
\* function, a missing module, and a reference with no dot.
NestedRefs ==
    { Ref(<<"n">>, <<"S">>), Ref(<<"n">>, <<"T">>), Ref(<<"n">>, Str_f_classif),
      Ref(<<"x">>, <<"Q">>), <<"Q">> }

SubParamNames == {<<"c">>, <<"d">>}
DVals == {NoneVal, SubParams({<<"c">>}), SubParams(SubParamNames)}
Items == {Item(r, v) : r \in NestedRefs, v \in DVals}

\* Names of parameters given a plain range, one of them holding "__"
Name_k == <<"k">>
Name_S__c == <<"S", "_", "_", "c">>
SimpleNames == {Name_k, Name_S__c}
\* Names of parameters given a dict of nested operators
Name_e == <<"e">>
Name_g == <<"g">>

\* The item lists of n items with distinct keys, in every iteration order
RECURSIVE ItemSeqs(_)
ItemSeqs(n) ==
    IF n = 0 THEN {<<>>}
    ELSE UNION { {Append(s, it) :
                    it \in {x \in Items : \A j \in 1..Len(s) : s[j].key # x.key}} :
                 s \in ItemSeqs(n - 1) }

ItemSeqsUpTo(n) == UNION {ItemSeqs(k) : k \in 0..n}

SimplePart(names) == [p \in names |-> Plain]
NestedPart(pname, items) ==
    IF items = <<>> THEN <<>> ELSE (pname :> Nested(items))

\* The parameter-specs: any of the simple names, and at most maxrefs nested
\* references shared out between the parameters e and g
OpDictsUpTo(maxrefs) ==
    UNION { { SimplePart(names) @@ NestedPart(Name_e, se) @@ NestedPart(Name_g, sg) :
                names \in SUBSET SimpleNames,
                sg \in ItemSeqsUpTo(maxrefs - Len(se)) } :
            se \in ItemSeqsUpTo(maxrefs) }

\* The parameter-specs of a catalog pass: no parameter, one simple parameter,
\* one nested operator with a sub-parameter (resolvable or not), and the
\* scoring function with None
PassOpDicts ==
    { SimplePart({}),
      SimplePart({Name_k}),
      NestedPart(Name_e, <<Item(Ref(<<"n">>, <<"S">>), SubParams({<<"c">>}))>>),
      NestedPart(Name_e, <<Item(Ref(<<"x">>, <<"Q">>), SubParams({<<"c">>}))>>),
      NestedPart(Name_e, <<Item(Ref(<<"n">>, Str_f_classif), NoneVal)>>) }

\* The parameter-specs of the entry the threads export: those, a simple
\* parameter beside a nested operator, a nested operator with None, and a
\* simple parameter whose name holds "__"
ThreadOpDicts ==
    PassOpDicts \cup
    { SimplePart({Name_k})
        @@ NestedPart(Name_e, <<Item(Ref(<<"n">>, <<"S">>), SubParams({<<"c">>}))>>),
      NestedPart(Name_e, <<Item(Ref(<<"n">>, <<"S">>), NoneVal)>>),
      SimplePart({Name_S__c}) }

\* The references of the entry the threads export
ThreadRefs == {Ref(<<"m">>, <<"R">>), Ref(<<"m">>, <<"C">>), Ref(<<"x">>, <<"Z">>)}

\* Argument values: a string and a number
Values == {StrVal(<<"a">>), IntVal(1)}
ArgLists(n) == [1..n -> Values]

Threads == 1..MaxThreads

----------------------------------------------------------------------------
(* The state machine *)

NoCall == [ref |-> <<>>, opdict |-> <<>>]
NoRet == [kind |-> "none", exc |-> "", desc |-> NoDesc, created |-> <<>>, printed |-> <<>>]
NoOut == [kind |-> "none", exc |-> "", text |-> <<>>, args |-> <<>>]

Init ==
    /\ nbuilds = 0
    /\ call = NoCall
    /\ ret = NoRet
    /\ tags = <<>>
    /\ done = {}
    /\ stdout = <<>>
    /\ out = NoOut
    /\ th = [t \in Threads |-> IdleFrame]

\* One call TPOTOperatorClassFactory(ref, opdict), for a key of the
\* configuration not built before
DoBuild(ref, opdict) ==
    LET r == TPOTOperatorClassFactory(ref, opdict)
    IN  /\ ref \notin done
        /\ nbuilds' = nbuilds + 1
        /\ call' = [ref |-> ref, opdict |-> opdict]
        /\ ret' = r
        /\ tags' = tags \o r.created
        /\ done' = done \cup {ref}
        /\ stdout' = stdout \o r.printed
        /\ out' = NoOut
        /\ UNCHANGED th

\* A single configuration entry with any parameter-spec is built
BuildOne ==
    /\ nbuilds = 0
    /\ \E ref \in TopRefs, opdict \in OpDictsUpTo(MaxRefs) : DoBuild(ref, opdict)

\* The next entry of a catalog pass is built
BuildEntry ==
    /\ nbuilds < MaxBuilds
    /\ \E ref \in TopRefs, opdict \in PassOpDicts : DoBuild(ref, opdict)

\* The entry whose export the threads will call is built
BuildShared ==
    /\ nbuilds = 0
    /\ \E ref \in ThreadRefs, opdict \in ThreadOpDicts : DoBuild(ref, opdict)

\* op_class.export(*args) on the descriptor just built, one value per
\* parameter type, run to its end
Export ==
    /\ ret.kind = "desc"
    /\ out.kind = "none"
    /\ \E args \in ArgLists(Len(ret.desc.arg_types)) :
          LET r == export(ret.desc, args)
          IN  /\ out' = [kind |-> r.frame.pc, exc |-> r.frame.exc,
                         text |-> r.frame.text, args |-> args]
              /\ ret' = [ret EXCEPT !.desc = r.closure]
    /\ UNCHANGED <<nbuilds, call, tags, done, stdout, th>>

\* Thread t calls export
ThreadCall(t) ==
    /\ ret.kind = "desc"
    /\ th[t].pc = "idle"
    /\ \E args \in ArgLists(Len(ret.desc.arg_types)) :
          th' = [th EXCEPT ![t] = ExportEnter(args)]
    /\ UNCHANGED <<nbuilds, call, ret, tags, done, stdout, out>>

\* Thread t executes the next statement of its call
ThreadStep(t) ==
    /\ th[t].pc = "loop"
    /\ LET r == ExportStep(th[t], ret.desc)
       IN  /\ th' = [th EXCEPT ![t] = r.frame]
           /\ ret' = [ret EXCEPT !.desc = r.closure]
    /\ UNCHANGED <<nbuilds, call, tags, done, stdout, out>>

\* Thread t's caller takes the result and the frame is gone
ThreadDone(t) ==
    /\ th[t].pc \in {"returned", "raised"}
    /\ th' = [th EXCEPT ![t] = IdleFrame]
    /\ UNCHANGED <<nbuilds, call, ret, tags, done, stdout, out>>

\* One entry is built and exported
Next == BuildOne \/ Export
Spec == Init /\ [][Next]_vars

\* A catalog pass
NextPass == BuildEntry
SpecPass == Init /\ [][NextPass]_vars

\* One entry is built and its export is called from several threads
NextThreads ==
    \/ BuildShared
    \/ \E t \in Threads : ThreadCall(t)
    \/ \E t \in Threads : ThreadStep(t)
    \/ \E t \in Threads : ThreadDone(t)
SpecThreads == Init /\ [][NextThreads]_vars

----------------------------------------------------------------------------
(* What the claims speak of *)

\* The parts of a dotted reference: its final segment and the path before it
SymbolOf(ref) == Split(ref, Dot)[Len(Split(ref, Dot))]
ModuleOf(ref) == Join(SubSeq(Split(ref, Dot), 1, Len(Split(ref, Dot)) - 1), Dot)

\* A reference whose module and symbol exist
Resolves(ref) ==
    \E r \in Registry : r.module = ModuleOf(ref) /\ r.symbol = SymbolOf(ref)
ObjectOf(ref) ==
    (CHOOSE r \in Registry : r.module = ModuleOf(ref) /\ r.symbol = SymbolOf(ref)).obj
HasMixin(obj) == obj.bases \cap {"ClassifierMixin", "RegressorMixin"} # {}

SimpleParams(opdict) == {p \in DOMAIN opdict : ~opdict[p].isdict}
\* The nested-operator references a parameter-spec declares
NestedDecls(opdict) ==
    UNION { { [pname |-> p, ref |-> opdict[p].items[j].key, dval |-> opdict[p].items[j].val] :
                j \in 1..Len(opdict[p].items) } :
            p \in {q \in DOMAIN opdict : opdict[q].isdict} }

RECURSIVE SumCard(_)
SumCard(decls) ==
    IF decls = {} THEN 0
    ELSE LET x == CHOOSE y \in decls : TRUE
         IN  Cardinality(x.dval.params) + SumCard(decls \ {x})

\* (outer parameter, nested symbol, sub-parameter) order; a simple
\* parameter's key is its name alone
KeyLess(a, b) ==
    \/ StrLess(a[1], b[1])
    \/ /\ a[1] = b[1] /\ Len(a) = 3 /\ Len(b) = 3
       /\ \/ StrLess(a[2], b[2])
          \/ a[2] = b[2] /\ StrLess(a[3], b[3])

Built == ret.kind = "desc"
Exported == out.kind # "none"

----------------------------------------------------------------------------
(* C1 *)

\* C1: parameter_types has one tag per simple parameter and per sub-parameter
\* of every nested reference, and its tags are in strictly ascending order of
\* (outer parameter, nested symbol, sub-parameter), also when one outer
\* parameter declares several nested references.
C1_LengthAndOrder ==
    Built =>
        /\ Len(ret.desc.arg_types)
              = Cardinality(SimpleParams(call.opdict)) + SumCard(NestedDecls(call.opdict))
        /\ \A i, j \in 1..Len(ret.desc.arg_types) :
              i < j => KeyLess(ret.desc.arg_types[i].key, ret.desc.arg_types[j].key)

----------------------------------------------------------------------------
(* C2 *)

\* C2: no two Parameter-Type-Tags created in one catalog-build pass have the
\* same identity string.
C2_TagIdentitiesUnique ==
    \A i, j \in 1..Len(tags) : i # j => tags[i] # tags[j]

----------------------------------------------------------------------------
(* C3 *)

\* The text a value has in the exported string: a string between double
\* quotes, anything else as it prints
ValueText(v) == IF v.t = "str" THEN <<"\"">> \o v.s \o <<"\"">> ELSE IntStr(v.n)

\* name=value for the positions from i on whose tag was made for a
\* declaration in keys, in parameter_types order
RECURSIVE ArgsFor(_, _, _, _)
ArgsFor(arg_types, args, i, keys) ==
    IF i > Len(arg_types) THEN <<>>
    ELSE (IF arg_types[i].key \in keys
          THEN <<arg_types[i].key[Len(arg_types[i].key)] \o <<"=">> \o ValueText(args[i])>>
          ELSE <<>>)
         \o ArgsFor(arg_types, args, i + 1, keys)

SubKeys(pname, symbol) == {<<pname, symbol, sp>> : sp \in SubParamNames}

\* outer_param=NestedSymbol(sub1=v1, ...) for the entries of
\* nested_operator_map from j on, f_classif bare
RECURSIVE NestedArgs(_, _, _)
NestedArgs(d, args, j) ==
    IF j > Len(d.dep_op_list) THEN <<>>
    ELSE LET pname  == d.dep_op_list[j].k
             symbol == d.dep_op_list[j].v
         IN  <<pname \o <<"=">> \o
                 (IF symbol = Str_f_classif THEN symbol
                  ELSE symbol \o <<"(">>
                       \o Join(ArgsFor(d.arg_types, args, 1, SubKeys(pname, symbol)), CommaSp)
                       \o <<")">>)>>
             \o NestedArgs(d, args, j + 1)

SimpleArgs(d, args, opdict) ==
    ArgsFor(d.arg_types, args, 1, {<<p>> : p \in SimpleParams(opdict)})

\* C3: export succeeds on every descriptor and argument list and returns
\* OuterSymbol(args): first one argument per entry of nested_operator_map, in
\* the map's order, each outer_param=NestedSymbol(its sub-arguments in
\* parameter_types order) or bare outer_param=f_classif, then the simple
\* arguments; also for nested operators with no sub-parameter.
C3_ExportRendersNested ==
    Exported =>
        /\ out.kind = "returned"
        /\ out.text = SymbolOf(call.ref) \o <<"(">>
                      \o Join(NestedArgs(ret.desc, out.args, 1)
                              \o SimpleArgs(ret.desc, out.args, call.opdict), CommaSp)
                      \o <<")">>

----------------------------------------------------------------------------
(* C4 *)

\* C4: for a reference whose module or symbol cannot be resolved, a reference
\* with no dot and the bare internal prefix included, the build does not
\* raise, returns (None, None) and creates no tag; and every build of a pass
\* returns what it returns when built alone.
C4_UnresolvableIsSkipped ==
    nbuilds > 0 =>
        /\ ~Resolves(call.ref) =>
              ret.kind = "skip" /\ ret.exc = "" /\ ret.created = <<>>
        /\ ret = TPOTOperatorClassFactory(call.ref, call.opdict)
        /\ Len(ret.created) <= Len(tags)
        /\ SubSeq(tags, Len(tags) - Len(ret.created) + 1, Len(tags)) = ret.created

----------------------------------------------------------------------------
(* C5 *)

\* A value was paired with a tag made for a sub-parameter of a nested
\* operator that is not a value of nested_operator_map
PairedWithUnmappedNested ==
    /\ Exported
    /\ \E i \in 1..Len(ret.desc.arg_types) :
          /\ Len(ret.desc.arg_types[i].key) = 3
          /\ CountValues(ret.desc.dep_op_list, ret.desc.arg_types[i].key[2]) = 0

\* C5: export then returns no string and fails with the format error, a
\* TypeError, and with no other error.
C5_FormatErrorIsTypeError ==
    PairedWithUnmappedNested => out.kind = "raised" /\ out.exc = "TypeError"

----------------------------------------------------------------------------
(* C6 *)

\* The arguments of a call expression Name(a, b(c, d), e): what stands
\* between its first "(" and its last ")", cut at each ", " outside brackets
RECURSIVE SplitTop(_, _, _, _)
SplitTop(s, depth, cur, acc) ==
    IF s = <<>> THEN Append(acc, cur)
    ELSE IF depth = 0 /\ StartsWith(s, CommaSp)
    THEN SplitTop(Drop(s, 2), depth, <<>>, Append(acc, cur))
    ELSE SplitTop(Tail(s),
                  IF Head(s) = "(" THEN depth + 1
                  ELSE IF Head(s) = ")" THEN depth - 1 ELSE depth,
                  Append(cur, Head(s)), acc)

TopLevelArgs(text) ==
    LET open  == CHOOSE i \in 1..Len(text) :
                    text[i] = "(" /\ \A j \in 1..(i - 1) : text[j] # "("
        inner == SubSeq(text, open + 1, Len(text) - 1)
    IN  IF inner = <<>> THEN <<>> ELSE SplitTop(inner, 0, <<>>, <<>>)

Occurrences(seq, x) == Cardinality({i \in 1..Len(seq) : seq[i] = x})

PositionOf(arg_types, p) == CHOOSE i \in 1..Len(arg_types) : arg_types[i].key = <<p>>

\* C6: the exported string starts with the outer symbol and "(", and holds
\* for every simple parameter of the parameter-spec exactly one top-level
\* argument param=value with the value given at that parameter's position, a
\* string between double quotes and anything else as it prints.
C6_SimpleParametersOnce ==
    Exported =>
        /\ out.kind = "returned"
        /\ StartsWith(out.text, SymbolOf(call.ref) \o <<"(">>)
        /\ out.text[Len(out.text)] = ")"
        /\ \A p \in SimpleParams(call.opdict) :
              Occurrences(TopLevelArgs(out.text),
                          p \o <<"=">>
                            \o ValueText(out.args[PositionOf(ret.desc.arg_types, p)])) = 1

----------------------------------------------------------------------------
(* C7 *)

\* C7: a returned descriptor has root true exactly when its type accessor
\* gives Classifier-or-Regressor, which is exactly when the resolved class
\* is a subclass of ClassifierMixin or of RegressorMixin; otherwise root is
\* false and the type is Preprocessor-or-Selector.
C7_RootIffClassifierOrRegressor ==
    Built =>
        /\ ret.desc.root = TRUE <=> ret.desc.type = Str_CR
        /\ ret.desc.type = Str_CR <=> HasMixin(ObjectOf(call.ref))
        /\ ~HasMixin(ObjectOf(call.ref)) =>
              ret.desc.root = FALSE /\ ret.desc.type = Str_PS

\* A regressor that is no classifier was built, and is root-eligible
C7_Witness ==
    /\ Built
    /\ ObjectOf(call.ref).bases = {"RegressorMixin"}
    /\ ret.desc.root = TRUE

----------------------------------------------------------------------------
(* C8 *)

Elements(seq) == {seq[i] : i \in 1..Len(seq)}

\* C8: import_hash files the outer symbol under the outer module path and
\* every nested symbol under that nested reference's own module path, and
\* files no symbol under a module path it was not resolved from.
C8_ImportsFiledUnderOwnModule ==
    Built =>
        LET ih    == ret.desc.import_hash
            pairs == {<<ModuleOf(call.ref), SymbolOf(call.ref)>>}
                     \cup {<<ModuleOf(x.ref), SymbolOf(x.ref)>> : x \in NestedDecls(call.opdict)}
        IN  /\ \A pr \in pairs : pr[1] \in DOMAIN ih /\ pr[2] \in Elements(ih[pr[1]])
            /\ \A mo \in DOMAIN ih : \A sy \in Elements(ih[mo]) : <<mo, sy>> \in pairs

----------------------------------------------------------------------------
(* C9 *)

UnresolvedNested(opdict) == {x \in NestedDecls(opdict) : ~Resolves(x.ref)}

\* C9: when the top-level reference resolves to a class and a nested
\* reference does not resolve, the build returns a descriptor whose
\* nested_operator_map gives that outer parameter the nested symbol name and
\* whose parameter_types has one tag per sub-parameter of that reference,
\* and export on it renders the symbol name.
C9_UnresolvedNestedKept ==
    (/\ nbuilds > 0
     /\ Resolves(call.ref)
     /\ ObjectOf(call.ref).isclass
     /\ UnresolvedNested(call.opdict) # {}) =>
        /\ Built
        /\ \A x \in UnresolvedNested(call.opdict) :
              /\ DictHas(ret.desc.dep_op_list, x.pname)
              /\ DictGet(ret.desc.dep_op_list, x.pname) = SymbolOf(x.ref)
              /\ Cardinality({i \in 1..Len(ret.desc.arg_types) :
                                 /\ Len(ret.desc.arg_types[i].key) = 3
                                 /\ ret.desc.arg_types[i].key[1] = x.pname
                                 /\ ret.desc.arg_types[i].key[2] = SymbolOf(x.ref)})
                    = Cardinality(x.dval.params)
              /\ Exported =>
                    /\ out.kind = "returned"
                    /\ \E a \in Elements(TopLevelArgs(out.text)) :
                          StartsWith(a, x.pname \o <<"=">> \o SymbolOf(x.ref))

----------------------------------------------------------------------------
(* C10 *)

\* C10: under any interleaving of export calls on one descriptor, each call
\* ends as the same call run alone ends (the same string, or the same
\* error), and the descriptor is after every step what the build returned.
C10_ExportPure ==
    nbuilds > 0 =>
        /\ ret = TPOTOperatorClassFactory(call.ref, call.opdict)
        /\ \A t \in Threads :
              th[t].pc \in {"returned", "raised"} =>
                 LET alone == export(TPOTOperatorClassFactory(call.ref, call.opdict).desc,
                                     th[t].args).frame
                 IN  /\ th[t].pc = alone.pc
                     /\ th[t].text = alone.text
                     /\ th[t].exc = alone.exc

\* One call has returned a string while another call, with other
\* arguments, is inside its loop
C10_Witness ==
    \E t, u \in Threads :
        /\ t # u
        /\ th[t].pc = "returned"
        /\ th[t].text # <<>>
        /\ th[u].pc = "loop"
        /\ th[u].i > 1
        /\ th[u].args # th[t].args

====
